---------------------------- MODULE Spec2Model ----------------------------
(***************************************************************************)
(* Smart Recipe Analyzer (Kaizat/Axium): the recipe generation path        *)
(* (request handler, RecipeService, GeminiService and its response         *)
(* parser) and the interaction log (StorageService).                       *)
(*                                                                         *)
(* Texts are sequences of tokens.  A token is one character (a backtick,   *)
(* a brace, a space, ...) or one word that is never split (the fence tag   *)
(* json, a key, a recipe name).  The str operations of Python (strip,      *)
(* find, rfind, slicing) are modelled on these sequences with 0-based      *)
(* indices, as in Python.                                                  *)
(***************************************************************************)
EXTENDS Integers, Sequences, FiniteSets, TLC

VARIABLES
    response_text,  \* _parse_ai_response: the raw text handed to the parser
    cleaned_text,   \* _parse_ai_response: local cleaned_text when json.loads runs
    parsed,         \* _parse_ai_response: its outcome (recipes returned or error raised)
    request,        \* the ingredient list of the last generation call
    outcome,        \* what the external model did on the last call
    response,       \* how the last generate call ended: the RecipeResponse returned, or raised
    http,           \* what the request handler answered last
    attempts,       \* generation attempts the request handler passed to the orchestrator
    modelCalls,     \* model invocations made by the last generate call
    steps,          \* the steps the last generate call went through
    store,          \* recipe_interactions.json: the "interactions" sequence
    clock,          \* datetime.now(), in whole seconds
    op,             \* the last operation that ran
    arg,            \* the argument of the last log operation
    ret,            \* what the last log operation returned
    exported,       \* the interaction sequence of the last export file written
    pc,             \* concurrent appends: where each writer is in store_interaction
    data,           \* concurrent appends: each writer's local data["interactions"]
    rec,            \* concurrent appends: each writer's interaction_data
    step,           \* generate step by step: the step about to run
    parserCalls     \* generate step by step: how often the parser was run

parseVars == <<response_text, cleaned_text, parsed>>
genVars == <<request, outcome, response, http, attempts, modelCalls, steps>>
logVars == <<store, clock, arg, ret, exported>>
raceVars == <<pc, data, rec>>
stepVars == <<step, parserCalls>>
vars == <<parseVars, genVars, logVars, raceVars, stepVars, op>>

-----------------------------------------------------------------------------
(* Bounds of the model *)

\* longest recipes array in a model response
MaxRecipes == 2
\* most decoration chunks (fences, prose, newlines) on either side of a JSON body
MaxDeco == 2
\* longest ingredient list of a request
MaxIngredients == 2
\* most generation requests the handler passes on in one behaviour
MaxAttempts == 2
\* most records in the interaction store
MaxStore == 3
\* the last instant of the clock, in ticks
MaxClock == 3
\* clock ticks in one second
TicksPerSecond == 2

-----------------------------------------------------------------------------
(* Python str operations on token sequences *)

Min(a, b) == IF a < b THEN a ELSE b
Max(a, b) == IF a > b THEN a ELSE b

Whitespace == {" ", "\n"}

\* the backtick character
Backtick == "<backtick>"

RECURSIVE LStrip(_)
LStrip(s) == IF s # <<>> /\ Head(s) \in Whitespace THEN LStrip(Tail(s)) ELSE s

RECURSIVE RStrip(_)
RStrip(s) ==
    IF s # <<>> /\ s[Len(s)] \in Whitespace THEN RStrip(SubSeq(s, 1, Len(s) - 1)) ELSE s

\* str.strip()
Strip(s) == RStrip(LStrip(s))

\* sub occurs in s at 0-based index i
OccursAt(s, sub, i) ==
    /\ i >= 0
    /\ i + Len(sub) <= Len(s)
    /\ SubSeq(s, i + 1, i + Len(sub)) = sub

\* sub in s
Contains(s, sub) == \E i \in 0..Len(s) : OccursAt(s, sub, i)

\* s.find(sub): the lowest index, -1 when absent
Find(s, sub) ==
    IF Contains(s, sub)
    THEN CHOOSE i \in 0..Len(s) :
            OccursAt(s, sub, i) /\ \A j \in 0..(i - 1) : ~OccursAt(s, sub, j)
    ELSE -1

\* s.rfind(sub): the highest index, -1 when absent
RFind(s, sub) ==
    IF Contains(s, sub)
    THEN CHOOSE i \in 0..Len(s) :
            OccursAt(s, sub, i) /\ \A j \in (i + 1)..Len(s) : ~OccursAt(s, sub, j)
    ELSE -1

\* s[start:end], with Python's treatment of negative and out-of-range indices
Slice(s, start, end) ==
    LET n == Len(s)
        norm(i) == IF i < 0 THEN Max(i + n, 0) ELSE Min(i, n)
        lo == norm(start)
        hi == norm(end)
    IN IF lo >= hi THEN <<>> ELSE SubSeq(s, lo + 1, hi)

\* the sequences over S of length at most n
SeqsUpTo(S, n) == UNION {[1..k -> S] : k \in 0..n}

RECURSIVE Flatten(_)
Flatten(ss) == IF ss = <<>> THEN <<>> ELSE Head(ss) \o Flatten(Tail(ss))

-----------------------------------------------------------------------------
(* JSON values as the model returns them, and their texts *)

Str(v) == [ty |-> "str", v |-> v]
List(v) == [ty |-> "list", v |-> v]
Absent == [ty |-> "absent", v |-> <<>>]

\* a nutrition object with the given calories value
Nutrition(cal) ==
    [ty |-> "obj", calories |-> cal, protein |-> Str(<<"12g">>), carbs |-> Str(<<"60g">>)]
NoNutrition ==
    [ty |-> "absent", calories |-> [ty |-> "int", n |-> 0], protein |-> Absent, carbs |-> Absent]

\* a recipes element that is a JSON object with the six Recipe keys, well typed
Dish(name, cal) ==
    [shape |-> "obj",
     name |-> Str(name),
     ingredients |-> List(<<"egg", "rice">>),
     instructions |-> List(<<"boil", "serve">>),
     cookingTime |-> Str(<<"20 minutes">>),
     difficulty |-> Str(<<"Easy">>),
     nutrition |-> Nutrition([ty |-> "int", n |-> cal])]

Pasta == Dish(<<"pasta">>, 400)
Salad == Dish(<<"salad">>, 150)
\* a well-formed recipe whose name holds three backticks
FencedName == Dish(<<Backtick, Backtick, Backtick, "wrap">>, 300)
\* the nutrition key is missing
MissingNutrition == [Dish(<<"soup">>, 0) EXCEPT !.nutrition = NoNutrition]
\* ingredients is a string where a list is required
StringIngredients == [Dish(<<"stew">>, 0) EXCEPT !.ingredients = Str(<<"egg">>)]
\* calories is a string of digits where an integer is required
NumericStringCalories ==
    [Dish(<<"cake">>, 0) EXCEPT !.nutrition = Nutrition([ty |-> "numstr", n |-> 250])]
\* calories is a string that is no number
WordCalories ==
    [Dish(<<"pie">>, 0) EXCEPT !.nutrition = Nutrition([ty |-> "word", n |-> 0])]
\* the element is a JSON string, not an object
BareString == [Dish(<<"toast">>, 0) EXCEPT !.shape = "str"]

Candidates ==
    {Pasta, Salad, FencedName, MissingNutrition, StringIngredients,
     NumericStringCalories, WordCalories, BareString}

\* a decoded JSON document: an array, or an object with or without a recipes key
JsonDocs ==
    {[top |-> "obj", recipesKey |-> "list", recipes |-> rs] :
        rs \in SeqsUpTo(Candidates, MaxRecipes)}
    \cup {[top |-> "obj", recipesKey |-> "absent", recipes |-> <<>>],
          [top |-> "obj", recipesKey |-> "null", recipes |-> <<>>],
          [top |-> "list", recipesKey |-> "absent", recipes |-> <<>>]}

Quoted(v) == <<"\"">> \o v \o <<"\"">>

\* texts joined by the item separator of json.dumps, a comma and a space
RECURSIVE JoinItems(_)
JoinItems(ts) ==
    IF ts = <<>> THEN <<>>
    ELSE IF Len(ts) = 1 THEN ts[1]
    ELSE ts[1] \o <<",", " ">> \o JoinItems(Tail(ts))

DumpsValue(f) ==
    IF f.ty = "str" THEN Quoted(f.v)
    ELSE <<"[">> \o JoinItems([i \in 1..Len(f.v) |-> Quoted(<<f.v[i]>>)]) \o <<"]">>

DumpsCalories(c) ==
    IF c.ty = "int" THEN <<ToString(c.n)>>
    ELSE IF c.ty = "numstr" THEN Quoted(<<ToString(c.n)>>)
    ELSE Quoted(<<"lots">>)

\* key: value, or nothing for an absent key
DumpsMember(key, valueText, present) ==
    IF present THEN <<Quoted(<<key>>) \o <<":", " ">> \o valueText>> ELSE <<>>

DumpsNutrition(n) ==
    <<"{">> \o JoinItems(
        DumpsMember("calories", DumpsCalories(n.calories), TRUE)
        \o DumpsMember("protein", DumpsValue(n.protein), n.protein.ty # "absent")
        \o DumpsMember("carbs", DumpsValue(n.carbs), n.carbs.ty # "absent")) \o <<"}">>

DumpsCandidate(c) ==
    IF c.shape = "str" THEN Quoted(c.name.v)
    ELSE <<"{">> \o JoinItems(
        DumpsMember("name", DumpsValue(c.name), c.name.ty # "absent")
        \o DumpsMember("ingredients", DumpsValue(c.ingredients), c.ingredients.ty # "absent")
        \o DumpsMember("instructions", DumpsValue(c.instructions), c.instructions.ty # "absent")
        \o DumpsMember("cookingTime", DumpsValue(c.cookingTime), c.cookingTime.ty # "absent")
        \o DumpsMember("difficulty", DumpsValue(c.difficulty), c.difficulty.ty # "absent")
        \o DumpsMember("nutrition", DumpsNutrition(c.nutrition), c.nutrition.ty # "absent"))
        \o <<"}">>

\* json.dumps(d): the text of document d
JsonDumps(d) ==
    IF d.top = "list" THEN <<"[", "]">>
    ELSE IF d.recipesKey = "absent" THEN <<"{", "}">>
    ELSE IF d.recipesKey = "null"
    THEN <<"{">> \o Quoted(<<"recipes">>) \o <<":", " ", "null", "}">>
    ELSE <<"{">> \o Quoted(<<"recipes">>) \o <<":", " ", "[">>
         \o JoinItems([i \in 1..Len(d.recipes) |-> DumpsCandidate(d.recipes[i])])
         \o <<"]", "}">>

\* whitespace between JSON tokens does not matter to the decoder; no string of
\* these documents holds whitespace
Compact(s) == SelectSeq(s, LAMBDA c : c \notin Whitespace)

CompactText == [d \in JsonDocs |-> Compact(JsonDumps(d))]

\* the document each JSON text decodes to
Decoded ==
    [u \in {CompactText[d] : d \in JsonDocs} |-> CHOOSE d \in JsonDocs : CompactText[d] = u]

\* json.loads(s): the document whose text s is, JSONDecodeError for any other text
JsonLoads(s) ==
    IF Compact(s) \in DOMAIN Decoded
    THEN [raised |-> FALSE, val |-> Decoded[Compact(s)]]
    ELSE [raised |-> TRUE, val |-> [top |-> "list", recipesKey |-> "absent", recipes |-> <<>>]]

-----------------------------------------------------------------------------
(* models.py: Recipe and NutritionInfo *)

\* NutritionInfo(**n): calories is an int (a string of digits is converted),
\* protein and carbs are strings
NutritionInfoValid(n) ==
    /\ n.ty = "obj"
    /\ n.calories.ty \in {"int", "numstr"}
    /\ n.protein.ty = "str"
    /\ n.carbs.ty = "str"

\* Recipe(**recipe_data) succeeds: recipe_data is a mapping and holds the six
\* required fields, each of its declared type
RecipeValid(c) ==
    /\ c.shape = "obj"
    /\ c.name.ty = "str"
    /\ c.ingredients.ty = "list"
    /\ c.instructions.ty = "list"
    /\ c.cookingTime.ty = "str"
    /\ c.difficulty.ty = "str"
    /\ NutritionInfoValid(c.nutrition)

\* the Recipe object built from a valid recipe_data
Recipe(c) ==
    [name |-> c.name.v,
     ingredients |-> c.ingredients.v,
     instructions |-> c.instructions.v,
     cookingTime |-> c.cookingTime.v,
     difficulty |-> c.difficulty.v,
     nutrition |-> [calories |-> c.nutrition.calories.n,
                    protein |-> c.nutrition.protein.v,
                    carbs |-> c.nutrition.carbs.v]]

-----------------------------------------------------------------------------
(* gemini_service.py: GeminiService._parse_ai_response *)

\* a function call ends by returning a value or by raising an exception whose
\* str() is exc
Return(v) == [raised |-> FALSE, exc |-> <<>>, val |-> v]
Raise(e) == [raised |-> TRUE, exc |-> e, val |-> <<>>]

JsonFence == <<Backtick, Backtick, Backtick, "json">>
Fence == <<Backtick, Backtick, Backtick>>

\* ExtractJsonText with the two fence tests in the other order
ExtractJsonTextGenericFirst(text) ==
    LET cleaned == Strip(text)
    IN IF Contains(cleaned, Fence)
       THEN Strip(Slice(cleaned, Find(cleaned, Fence) + Len(Fence),
                        RFind(cleaned, Fence)))
       ELSE IF Contains(cleaned, JsonFence)
       THEN Strip(Slice(cleaned, Find(cleaned, JsonFence) + Len(JsonFence),
                        RFind(cleaned, Fence)))
       ELSE cleaned

\* The text handed to json.loads.  The offsets 7 and 3 of the code are the
\* lengths of the two markers in characters; here the tag json is one token.
ExtractJsonText(text) ==
    LET cleaned == Strip(text)
    IN IF Contains(cleaned, JsonFence)
       THEN Strip(Slice(cleaned, Find(cleaned, JsonFence) + Len(JsonFence),
                        RFind(cleaned, Fence)))
       ELSE IF Contains(cleaned, Fence)
       THEN Strip(Slice(cleaned, Find(cleaned, Fence) + Len(Fence),
                        RFind(cleaned, Fence)))
       ELSE cleaned

\* the loop over data.get("recipes", []): an element that Recipe rejects is
\* skipped, the others are appended in order
RECURSIVE CollectRecipes(_)
CollectRecipes(cs) ==
    IF cs = <<>> THEN <<>>
    ELSE IF RecipeValid(Head(cs))
    THEN <<Recipe(Head(cs))>> \o CollectRecipes(Tail(cs))
    ELSE CollectRecipes(Tail(cs))

\* what follows json.loads: its JSONDecodeError and any other exception are
\* raised again as ValueError, the recipes collected are returned
ParseDecoded(loaded) ==
    IF loaded.raised
    THEN Raise(<<"Failed to parse AI response as JSON">>)
    ELSE IF loaded.val.top = "list"
    THEN Raise(<<"Failed to process AI response: ", "'list' object has no attribute 'get'">>)
    ELSE IF loaded.val.recipesKey = "null"
    THEN Raise(<<"Failed to process AI response: ", "'NoneType' object is not iterable">>)
    ELSE Return(CollectRecipes(loaded.val.recipes))

ParseAiResponse(text) == ParseDecoded(JsonLoads(ExtractJsonText(text)))

-----------------------------------------------------------------------------
(* Ingredient strings: pre spaces, then len characters of a word (in capitals *)
(* or not), then post spaces.  grow is the number of characters str.lower()  *)
(* adds to the word: a capital dotted I becomes two characters                *)

\* the length limit of validate_ingredients and sanitize_ingredients
IngredientLimit == 100

Ingredient(pre, word, caps, len, post) ==
    [pre |-> pre, word |-> word, caps |-> caps, len |-> len, post |-> post, grow |-> 0]

\* str.strip(), str.lower(), len(), and the truth value of a string
IngStrip(s) == [s EXCEPT !.pre = 0, !.post = 0]
IngLower(s) == [s EXCEPT !.caps = FALSE, !.len = s.len + s.grow, !.grow = 0]
IngLen(s) == s.pre + s.len + s.post
Truthy(s) == IngLen(s) > 0

EmptyString == Ingredient(0, "", FALSE, 0, 0)
Spaces == Ingredient(1, "", FALSE, 0, 1)
Egg == Ingredient(0, "egg", FALSE, 3, 0)
PaddedEgg == Ingredient(1, "egg", TRUE, 3, 1)
LongestName == Ingredient(0, "x", FALSE, IngredientLimit, 0)
TooLongName == Ingredient(1, "x", FALSE, IngredientLimit + 1, 0)
DottedName == [Ingredient(0, "x", TRUE, IngredientLimit, 0) EXCEPT !.grow = 1]

IngredientStrings ==
    {EmptyString, Spaces, Egg, PaddedEgg, LongestName, TooLongName, DottedName}
IngredientLists == SeqsUpTo(IngredientStrings, MaxIngredients)

-----------------------------------------------------------------------------
(* models.py: RecipeRequest and RecipeResponse *)

NoMessage == [isNone |-> TRUE, text |-> <<>>]
Message(text) == [isNone |-> FALSE, text |-> text]

RecipeResponse(recipes, success, message) ==
    [recipes |-> recipes, success |-> success, message |-> message]

StripLower(s) == IngLower(IngStrip(s))
NonBlank(s) == Truthy(IngStrip(s))
StripLowerAll(s) == [i \in 1..Len(s) |-> StripLower(s[i])]

\* RecipeRequest(ingredients=v): the validator rejects an empty list and keeps
\* the non-blank entries, stripped and lowercased
RecipeRequestInit(v) ==
    IF v = <<>>
    THEN Raise(<<"Ingredients list cannot be empty">>)
    ELSE Return(StripLowerAll(SelectSeq(v, NonBlank)))

-----------------------------------------------------------------------------
(* The external model: generate_content raises, or returns a text *)

Prose == <<"not", " ", "json", " ", "at", " ", "all">>

RecipesDoc(rs) == [top |-> "obj", recipesKey |-> "list", recipes |-> rs]

FencedEmptyRecipes == JsonFence \o <<"\n">> \o JsonDumps(RecipesDoc(<<>>)) \o <<"\n">> \o Fence

ModelTexts ==
    {Prose,
     FencedEmptyRecipes,
     JsonDumps(RecipesDoc(<<Pasta, Salad>>)),
     JsonDumps(RecipesDoc(<<MissingNutrition>>)),
     JsonDumps(RecipesDoc(<<StringIngredients, Pasta>>)),
     JsonDumps(RecipesDoc(<<FencedName>>)),
     JsonDumps([top |-> "obj", recipesKey |-> "null", recipes |-> <<>>])}

\* what may surround a JSON body in an answer of the model
DecoChunks == {JsonFence, Fence, <<"\n">>, Prose}
Decos == {Flatten(cs) : cs \in SeqsUpTo(DecoChunks, MaxDeco)}

FencedBodies ==
    {<<>>,
     JsonDumps(RecipesDoc(<<>>)),
     JsonDumps(RecipesDoc(<<Pasta>>)),
     JsonDumps(RecipesDoc(<<FencedName>>))}

\* the texts the parser is run on: every document as json.dumps writes it,
\* and bodies with decoration before and after
RawTexts ==
    {JsonDumps(d) : d \in JsonDocs}
    \cup {pre \o body \o post : pre \in Decos, body \in FencedBodies, post \in Decos}

ModelError(desc) == [kind |-> "error", desc |-> desc, text |-> <<>>]
ModelText(text) == [kind |-> "text", desc |-> <<>>, text |-> text]
NotCalled == [kind |-> "none", desc |-> <<>>, text |-> <<>>]

ModelOutcomes ==
    {ModelError(<<"503 The model is overloaded">>)} \cup {ModelText(t) : t \in ModelTexts}

-----------------------------------------------------------------------------
(* gemini_service.py: GeminiService.generate_recipes *)

\* GeminiRespond with an except clause that leaves the exception text out
GeminiRespondNoDescription(tried) ==
    IF tried.raised
    THEN RecipeResponse(<<>>, FALSE, Message(<<"Failed to generate recipes">>))
    ELSE RecipeResponse(tried.val, TRUE,
            Message(<<"Generated ", ToString(Len(tried.val)),
                      " recipes using your ingredients">>))

\* the return statement of the try block, and the except clause
GeminiRespond(tried) ==
    IF tried.raised
    THEN RecipeResponse(<<>>, FALSE, Message(<<"Failed to generate recipes: ">> \o tried.exc))
    ELSE RecipeResponse(tried.val, TRUE,
            Message(<<"Generated ", ToString(Len(tried.val)),
                      " recipes using your ingredients">>))

\* the try block: generate_content raises or returns the text, which is parsed
GeminiTry(out) ==
    IF out.kind = "error" THEN Raise(out.desc) ELSE ParseAiResponse(out.text)

GeminiGenerateRecipes(ingredients, out) == GeminiRespond(GeminiTry(out))

-----------------------------------------------------------------------------
(* recipe_service.py: RecipeService *)

\* what a run of generate_recipes_from_ingredients did: the steps it went
\* through, how often it invoked the model, and its result
Ran(stepsTaken, calls, result) ==
    [steps |-> stepsTaken, modelCalls |-> calls, result |-> result]

Failure(text) == Return(RecipeResponse(<<>>, FALSE, Message(text)))

\* CheckGenerated without the test for an empty recipe list
CheckGeneratedNoResultCheck(resp) ==
    IF ~resp.success
    THEN Ran(<<"INPUT_CHECK", "FILTER_CHECK", "GENERATE">>, 1, Return(resp))
    ELSE Ran(<<"INPUT_CHECK", "FILTER_CHECK", "GENERATE", "RESULT_CHECK", "SUCCESS">>, 1,
             Return(resp))

\* the try block after the model service answered with resp
CheckGenerated(resp) ==
    IF ~resp.success
    THEN Ran(<<"INPUT_CHECK", "FILTER_CHECK", "GENERATE">>, 1, Return(resp))
    ELSE IF resp.recipes = <<>>
    THEN Ran(<<"INPUT_CHECK", "FILTER_CHECK", "GENERATE", "RESULT_CHECK">>, 1,
             Failure(<<"No recipes could be generated with the provided ingredients">>))
    ELSE Ran(<<"INPUT_CHECK", "FILTER_CHECK", "GENERATE", "RESULT_CHECK", "SUCCESS">>, 1,
             Return(resp))

\* GenerateBody without the test for an all-blank list
GenerateBodyNoFilter(ingredients, out) ==
    IF ingredients = <<>>
    THEN Ran(<<"INPUT_CHECK">>, 0, Failure(<<"No ingredients provided">>))
    ELSE CheckGenerated(GeminiGenerateRecipes(ingredients, out))

\* the try block
GenerateBody(ingredients, out) ==
    IF ingredients = <<>>
    THEN Ran(<<"INPUT_CHECK">>, 0, Failure(<<"No ingredients provided">>))
    ELSE IF SelectSeq(ingredients, NonBlank) = <<>>
    THEN Ran(<<"INPUT_CHECK", "FILTER_CHECK">>, 0, Failure(<<"No valid ingredients found">>))
    ELSE CheckGenerated(GeminiGenerateRecipes(SelectSeq(ingredients, NonBlank), out))

\* the except clause: any exception of the try block becomes a failure response
GenerateCatch(ran) ==
    IF ran.result.raised
    THEN [ran EXCEPT !.result =
            Failure(<<"An error occurred while generating recipes: ">> \o ran.result.exc)]
    ELSE ran

\* generate_recipes_from_ingredients
GenerateRecipesFromIngredients(ingredients, out) ==
    GenerateCatch(GenerateBody(ingredients, out))

\* validate_ingredients: (is_valid, error_message)
ValidateIngredients(ingredients) ==
    IF ingredients = <<>>
    THEN [ok |-> FALSE, msg |-> <<"Ingredients list cannot be empty">>]
    ELSE IF \E i \in 1..Len(ingredients) : IngLen(IngStrip(ingredients[i])) > IngredientLimit
    THEN [ok |-> FALSE, msg |-> <<"Ingredient is too long">>]
    ELSE [ok |-> TRUE, msg |-> <<>>]

SanitizedKept(s) == Truthy(StripLower(s)) /\ IngLen(StripLower(s)) <= IngredientLimit

\* sanitize_ingredients without the length test
SanitizeIngredientsNoLimit(ingredients) == StripLowerAll(SelectSeq(ingredients, NonBlank))

\* sanitize_ingredients
SanitizeIngredients(ingredients) == StripLowerAll(SelectSeq(ingredients, SanitizedKept))

-----------------------------------------------------------------------------
(* main.py: the request handler generate_recipes *)

HttpResponse(status, detail, body) == [status |-> status, detail |-> detail, body |-> body]

NoResponse == RecipeResponse(<<>>, FALSE, NoMessage)
NoHttp == HttpResponse(0, <<>>, NoResponse)
NotRun == Ran(<<>>, 0, Return(NoResponse))

\* what the handler did: whether it called the orchestrator, that run, and
\* the answer sent
Handled(called, ran, answer) == [called |-> called, ran |-> ran, http |-> answer]

\* raw is the ingredient list of the request body.  The framework builds the
\* RecipeRequest before the handler body runs and answers 422 when that fails.
\* the handler once the orchestrator returned: a failure is answered 500
\* with the message, a success 200 with the response
HandleRan(ran) ==
    IF ~ran.result.val.success
    THEN Handled(TRUE, ran, HttpResponse(500, ran.result.val.message.text, NoResponse))
    ELSE Handled(TRUE, ran, HttpResponse(200, <<>>, ran.result.val))

\* the handler from the sanitized request on
HandleSanitized(sanitized_request, out) ==
    IF sanitized_request.raised
    THEN Handled(FALSE, NotRun,
            HttpResponse(500, <<"Internal server error: ">> \o sanitized_request.exc,
                         NoResponse))
    ELSE HandleRan(GenerateRecipesFromIngredients(sanitized_request.val, out))

\* the handler body, for the ingredients of the request
HandleBody(ingredients, out) ==
    IF ~ValidateIngredients(ingredients).ok
    THEN Handled(FALSE, NotRun,
            HttpResponse(400, ValidateIngredients(ingredients).msg, NoResponse))
    ELSE IF SanitizeIngredients(ingredients) = <<>>
    THEN Handled(FALSE, NotRun,
            HttpResponse(400, <<"No valid ingredients found after sanitization">>, NoResponse))
    ELSE HandleSanitized(RecipeRequestInit(SanitizeIngredients(ingredients)), out)

\* the request as the framework passes it on
HandleRequest(req, out) ==
    IF req.raised
    THEN Handled(FALSE, NotRun, HttpResponse(422, req.exc, NoResponse))
    ELSE HandleBody(req.val, out)

\* raw is the ingredient list of the request body.  The framework builds the
\* RecipeRequest before the handler body runs and answers 422 when that fails.
HandleGenerateRecipes(raw, out) == HandleRequest(RecipeRequestInit(raw), out)

-----------------------------------------------------------------------------
(* storage_service.py: StorageService *)

\* strftime with format %Y%m%d_%H%M%S: the instant cut to its whole second
SecondOf(now) == now \div TicksPerSecond

\* generate_interaction_id
GenerateInteractionId(now) == [prefix |-> "recipe_interaction_", stamp |-> SecondOf(now)]

NoText == [isNone |-> TRUE, text |-> <<>>]
Text(t) == [isNone |-> FALSE, text |-> t]

\* the arguments of store_interaction
StoreArgs(user_ingredients, llm_response, parsed_recipes, success, error_message) ==
    [user_ingredients |-> user_ingredients, llm_response |-> llm_response,
     parsed_recipes |-> parsed_recipes, success |-> success,
     error_message |-> error_message]

\* interaction_data; response_length counts tokens here, characters in the code
InteractionData(a, now) ==
    [interaction_id |-> GenerateInteractionId(now),
     timestamp |-> now,
     user_input |-> [ingredients |-> a.user_ingredients,
                     ingredient_count |-> Len(a.user_ingredients)],
     llm_interaction |-> [raw_response |-> a.llm_response,
                          response_length |->
                              IF a.llm_response.isNone THEN 0 ELSE Len(a.llm_response.text),
                          response_type |-> IF a.llm_response.isNone THEN "NoneType" ELSE "str"],
     parsed_output |-> [recipes |-> a.parsed_recipes,
                        recipe_count |-> Len(a.parsed_recipes),
                        success |-> a.success],
     metadata |-> [error_message |-> a.error_message,
                   processing_status |-> IF a.success THEN "success" ELSE "failed"]]

\* WithInteraction that writes the new record alone
WithInteractionOnly(loaded, interaction_data) == <<interaction_data>>

\* the file after store_interaction: everything loaded, then the new record
WithInteraction(loaded, interaction_data) == Append(loaded, interaction_data)

\* get_all_interactions
GetAllInteractions(file) == file

NotFound == [found |-> FALSE, record |-> InteractionData(
                StoreArgs(<<>>, NoText, <<>>, FALSE, NoText), 0)]
Found(r) == [found |-> TRUE, record |-> r]

\* get_interaction_by_id: the first record with that id, None when there is none
GetInteractionById(file, id) ==
    LET interactions == GetAllInteractions(file)
    IN IF \E i \in 1..Len(interactions) : interactions[i].interaction_id = id
       THEN Found(interactions[CHOOSE i \in 1..Len(interactions) :
                    /\ interactions[i].interaction_id = id
                    /\ \A j \in 1..(i - 1) : interactions[j].interaction_id # id])
       ELSE NotFound

\* s[i:], with the treatment Python gives negative and out-of-range indices
SliceFrom(s, i) == Slice(s, i, Len(s))

\* get_recent_interactions
GetRecentInteractions(file, limit) ==
    LET interactions == GetAllInteractions(file)
    IN IF interactions # <<>> THEN SliceFrom(interactions, 0 - limit) ELSE <<>>

\* the arguments the log is appended with
LogInputs ==
    {StoreArgs(<<Egg>>, Text(JsonDumps(RecipesDoc(<<Pasta, Salad>>))),
               <<Recipe(Pasta), Recipe(Salad)>>, TRUE, NoText),
     StoreArgs(<<Egg, LongestName>>, Text(JsonDumps(RecipesDoc(<<Pasta>>))),
               <<Recipe(Pasta)>>, TRUE, NoText),
     StoreArgs(<<PaddedEgg>>, NoText, <<>>, FALSE,
               Text(<<"Failed to generate recipes: ", "503 The model is overloaded">>))}

Limits == (0 - 1)..(MaxStore + 1)


RECURSIVE CountSuccessful(_)
CountSuccessful(interactions) ==
    IF interactions = <<>> THEN 0
    ELSE (IF Head(interactions).parsed_output.success THEN 1 ELSE 0)
         + CountSuccessful(Tail(interactions))

RECURSIVE SumRecipeCount(_)
SumRecipeCount(interactions) ==
    IF interactions = <<>> THEN 0
    ELSE Head(interactions).parsed_output.recipe_count + SumRecipeCount(Tail(interactions))

\* a float that is the quotient num / den
Ratio(num, den) == [num |-> num, den |-> den]

\* get_storage_stats: keys are the keys of the dictionary returned (the file
\* name and the file size are left out); a field whose key is not in keys is
\* not in the dictionary, whatever value the record gives it
GetStorageStats(file) ==
    LET interactions == GetAllInteractions(file)
        total_interactions == Len(interactions)
        successful_interactions == CountSuccessful(interactions)
        total_recipes_generated == SumRecipeCount(interactions)
    IN IF interactions = <<>>
       THEN [keys |-> {"total_interactions"},
             total_interactions |-> 0,
             successful_interactions |-> 0,
             failed_interactions |-> 0,
             success_rate |-> Ratio(0, 1),
             total_recipes_generated |-> 0,
             average_recipes_per_interaction |-> Ratio(0, 1)]
       ELSE [keys |-> {"total_interactions", "successful_interactions",
                       "failed_interactions", "success_rate", "total_recipes_generated",
                       "average_recipes_per_interaction"},
             total_interactions |-> total_interactions,
             successful_interactions |-> successful_interactions,
             failed_interactions |-> total_interactions - successful_interactions,
             success_rate |->
                 IF total_interactions > 0
                 THEN Ratio(successful_interactions * 100, total_interactions)
                 ELSE Ratio(0, 1),
             total_recipes_generated |-> total_recipes_generated,
             average_recipes_per_interaction |->
                 IF successful_interactions > 0
                 THEN Ratio(total_recipes_generated, successful_interactions)
                 ELSE Ratio(0, 1)]

\* export_interactions_to_json with the default file name: the export file
ExportFile(file, now) ==
    [filename |-> [prefix |-> "recipe_export_", stamp |-> SecondOf(now)],
     total_interactions |-> Len(GetAllInteractions(file)),
     interactions |-> GetAllInteractions(file)]

NoExport == [filename |-> [prefix |-> "", stamp |-> 0], total_interactions |-> 0,
             interactions |-> <<>>]

-----------------------------------------------------------------------------
(* The state machine.  An operation runs from the idle state and leaves its  *)
(* arguments and its result in the state; Complete is its caller taking the  *)
(* result, which ends the call.                                              *)

Writers == {"w1", "w2"}

NoParse == Return(<<>>)
NoRecord == NotFound.record

Init ==
    /\ response_text = <<>> /\ cleaned_text = <<>> /\ parsed = NoParse
    /\ request = <<>> /\ outcome = NotCalled /\ response = Return(NoResponse) /\ http = NoHttp
    /\ attempts = 0 /\ modelCalls = 0 /\ steps = <<>>
    /\ store = <<>> /\ clock = 0 /\ op = "idle" /\ arg = <<>> /\ ret = <<>>
    /\ exported = NoExport
    /\ pc = [w \in Writers |-> "idle"]
    /\ data = [w \in Writers |-> <<>>]
    /\ rec = [w \in Writers |-> NoRecord]
    /\ step = "none" /\ parserCalls = 0

\* the caller takes the result: the locals of the call are gone
Complete ==
    /\ op # "idle"
    /\ op' = "idle"
    /\ response_text' = <<>> /\ cleaned_text' = <<>> /\ parsed' = NoParse
    /\ request' = <<>> /\ outcome' = NotCalled /\ response' = Return(NoResponse) /\ http' = NoHttp
    /\ modelCalls' = 0 /\ steps' = <<>>
    /\ arg' = <<>> /\ ret' = <<>>
    /\ UNCHANGED <<attempts, store, clock, exported, raceVars, stepVars>>

\* recipe_service.validate_ingredients(ingredients) on a raw list
Validate(ingredients) ==
    /\ op = "idle"
    /\ op' = "validate"
    /\ arg' = ingredients
    /\ ret' = ValidateIngredients(ingredients)
    /\ UNCHANGED <<store, clock, exported, parseVars, genVars, raceVars, stepVars>>

\* recipe_service.sanitize_ingredients(ingredients) on a raw list
Sanitize(ingredients) ==
    /\ op = "idle"
    /\ op' = "sanitize"
    /\ arg' = ingredients
    /\ ret' = SanitizeIngredients(ingredients)
    /\ UNCHANGED <<store, clock, exported, parseVars, genVars, raceVars, stepVars>>

\* time passes
Tick ==
    /\ op = "idle"
    /\ clock < MaxClock
    /\ clock' = clock + 1
    /\ UNCHANGED <<parseVars, genVars, store, arg, ret, exported, raceVars, stepVars, op>>

\* _parse_ai_response(text)
ParseResponse(text) ==
    /\ op = "idle"
    /\ op' = "parse"
    /\ response_text' = text
    /\ cleaned_text' = ExtractJsonText(text)
    /\ parsed' = ParseAiResponse(text)
    /\ UNCHANGED <<genVars, logVars, raceVars, stepVars>>

\* a run of the orchestrator leaves its result, its steps and its use of the
\* model in the state
RecordRun(ran, out) ==
    /\ outcome' = IF ran.modelCalls > 0 THEN out ELSE NotCalled
    /\ response' = ran.result
    /\ modelCalls' = ran.modelCalls
    /\ steps' = ran.steps

RecordHandled(h, out) ==
    /\ RecordRun(h.ran, out)
    /\ http' = h.http
    /\ attempts' = IF h.called THEN attempts + 1 ELSE attempts

\* recipe_service.generate_recipes_from_ingredients(request), called directly;
\* out is what the model does if it is invoked
Generate(ingredients, out) ==
    /\ op = "idle"
    /\ op' = "generate"
    /\ request' = ingredients
    /\ RecordRun(GenerateRecipesFromIngredients(ingredients, out), out)
    /\ UNCHANGED <<http, attempts, parseVars, logVars, raceVars, stepVars>>

\* POST /api/recipes/generate with the ingredient list raw
HandleGenerate(raw, out) ==
    /\ op = "idle"
    /\ attempts < MaxAttempts
    /\ op' = "handle"
    /\ request' = raw
    /\ RecordHandled(HandleGenerateRecipes(raw, out), out)
    /\ UNCHANGED <<parseVars, logVars, raceVars, stepVars>>

\* storage_service.store_interaction(...), run without interruption, at an
\* instant later than every earlier append
StoreInteraction(a) ==
    /\ op = "idle"
    /\ Len(store) < MaxStore
    /\ \A i \in 1..Len(store) : store[i].timestamp < clock
    /\ op' = "append"
    /\ store' = WithInteraction(store, InteractionData(a, clock))
    /\ arg' = a
    /\ ret' = InteractionData(a, clock).interaction_id
    /\ UNCHANGED <<clock, exported, parseVars, genVars, raceVars, stepVars>>

GetAll ==
    /\ op = "idle"
    /\ op' = "get_all"
    /\ arg' = <<>>
    /\ ret' = GetAllInteractions(store)
    /\ UNCHANGED <<store, clock, exported, parseVars, genVars, raceVars, stepVars>>

GetById(id) ==
    /\ op = "idle"
    /\ op' = "get_by_id"
    /\ arg' = id
    /\ ret' = GetInteractionById(store, id)
    /\ UNCHANGED <<store, clock, exported, parseVars, genVars, raceVars, stepVars>>

GetRecent(limit) ==
    /\ op = "idle"
    /\ op' = "get_recent"
    /\ arg' = limit
    /\ ret' = GetRecentInteractions(store, limit)
    /\ UNCHANGED <<store, clock, exported, parseVars, genVars, raceVars, stepVars>>

GetStats ==
    /\ op = "idle"
    /\ op' = "get_stats"
    /\ arg' = <<>>
    /\ ret' = GetStorageStats(store)
    /\ UNCHANGED <<store, clock, exported, parseVars, genVars, raceVars, stepVars>>

Export ==
    /\ op = "idle"
    /\ op' = "export"
    /\ arg' = <<>>
    /\ exported' = ExportFile(store, clock)
    /\ ret' = exported'.filename
    /\ UNCHANGED <<store, clock, parseVars, genVars, raceVars, stepVars>>

\* the ids a client may ask for: one for every second of the clock
InteractionIds == {GenerateInteractionId(t) : t \in 0..(MaxClock + TicksPerSecond)}

-----------------------------------------------------------------------------
(* Two writers running store_interaction at the same time: each builds its   *)
(* record, loads the file, and writes the file back                          *)

BeginStore(w, a) ==
    /\ pc[w] = "idle"
    /\ pc' = [pc EXCEPT ![w] = "built"]
    /\ rec' = [rec EXCEPT ![w] = InteractionData(a, clock)]
    /\ UNCHANGED <<data, stepVars, parseVars, genVars, logVars, op>>

LoadStore(w) ==
    /\ pc[w] = "built"
    /\ pc' = [pc EXCEPT ![w] = "loaded"]
    /\ data' = [data EXCEPT ![w] = store]
    /\ UNCHANGED <<rec, stepVars, parseVars, genVars, logVars, op>>

\* SaveStore that appends to the file as it is when the writer saves
SaveStoreFresh(w) ==
    /\ pc[w] = "loaded"
    /\ pc' = [pc EXCEPT ![w] = "done"]
    /\ store' = WithInteraction(store, rec[w])
    /\ UNCHANGED <<data, rec, clock, arg, ret, exported, stepVars, parseVars, genVars, op>>

SaveStore(w) ==
    /\ pc[w] = "loaded"
    /\ pc' = [pc EXCEPT ![w] = "done"]
    /\ store' = WithInteraction(data[w], rec[w])
    /\ UNCHANGED <<data, rec, clock, arg, ret, exported, stepVars, parseVars, genVars, op>>

-----------------------------------------------------------------------------
(* Specifications *)

\* the generation path: the orchestrator called directly and through the
\* request handler
Next ==
    \/ \E ingredients \in IngredientLists, out \in ModelOutcomes : Generate(ingredients, out)
    \/ \E raw \in IngredientLists, out \in ModelOutcomes : HandleGenerate(raw, out)
    \/ Complete

Spec == Init /\ [][Next]_vars

\* the interaction log, one operation at a time
NextLog ==
    \/ \E a \in LogInputs : StoreInteraction(a)
    \/ GetAll
    \/ \E id \in InteractionIds : GetById(id)
    \/ \E limit \in Limits : GetRecent(limit)
    \/ GetStats
    \/ Export
    \/ Tick
    \/ Complete

SpecLog == Init /\ [][NextLog]_vars

\* the interaction log with two concurrent writers
NextRace ==
    \/ \E w \in Writers, a \in LogInputs : BeginStore(w, a)
    \/ \E w \in Writers : LoadStore(w)
    \/ \E w \in Writers : SaveStore(w)
    \/ Tick

SpecRace == Init /\ [][NextRace]_vars

\* the response parser on its own
NextParse ==
    \/ \E text \in RawTexts : ParseResponse(text)
    \/ Complete

SpecParse == Init /\ [][NextParse]_vars

\* the ingredient checks on their own
NextNormalize ==
    \/ \E ingredients \in IngredientLists : Validate(ingredients)
    \/ \E ingredients \in IngredientLists : Sanitize(ingredients)
    \/ Complete

SpecNormalize == Init /\ [][NextNormalize]_vars

-----------------------------------------------------------------------------
(* generate_recipes_from_ingredients statement by statement.  step is the    *)
(* step about to run, steps the steps that ran.                              *)

\* the call: recipe_service.generate_recipes_from_ingredients(request)
BeginGenerate(ingredients) ==
    /\ op = "idle"
    /\ op' = "generating"
    /\ request' = ingredients
    /\ step' = "INPUT_CHECK"
    /\ UNCHANGED <<outcome, response, http, attempts, modelCalls, steps, parserCalls,
                   parseVars, logVars, raceVars>>

\* if not request.ingredients: return the failure
InputCheck ==
    /\ op = "generating" /\ step = "INPUT_CHECK"
    /\ steps' = Append(steps, "INPUT_CHECK")
    /\ IF request = <<>>
       THEN response' = Failure(<<"No ingredients provided">>) /\ step' = "done"
       ELSE response' = response /\ step' = "FILTER_CHECK"
    /\ UNCHANGED <<request, outcome, http, attempts, modelCalls, parserCalls, op,
                   parseVars, logVars, raceVars>>

\* FilterCheck without the return for an all-blank list
FilterCheckNoReturn ==
    /\ op = "generating" /\ step = "FILTER_CHECK"
    /\ steps' = Append(steps, "FILTER_CHECK")
    /\ response' = response /\ step' = "GENERATE"
    /\ UNCHANGED <<request, outcome, http, attempts, modelCalls, parserCalls, op,
                   parseVars, logVars, raceVars>>

\* valid_ingredients = [...]; if not valid_ingredients: return the failure
FilterCheck ==
    /\ op = "generating" /\ step = "FILTER_CHECK"
    /\ steps' = Append(steps, "FILTER_CHECK")
    /\ IF SelectSeq(request, NonBlank) = <<>>
       THEN response' = Failure(<<"No valid ingredients found">>) /\ step' = "done"
       ELSE response' = response /\ step' = "GENERATE"
    /\ UNCHANGED <<request, outcome, http, attempts, modelCalls, parserCalls, op,
                   parseVars, logVars, raceVars>>

\* gemini_service.generate_recipes: self.model.generate_content(prompt) raises,
\* the except clause answers and generate returns that answer, or it returns
\* a text
CallModel(out) ==
    /\ op = "generating" /\ step = "GENERATE"
    /\ steps' = Append(steps, "GENERATE")
    /\ modelCalls' = modelCalls + 1
    /\ outcome' = out
    /\ IF out.kind = "error"
       THEN response' = Return(GeminiRespond(Raise(out.desc))) /\ step' = "done"
       ELSE response' = response /\ step' = "PARSE"
    /\ UNCHANGED <<request, http, attempts, parserCalls, op, parseVars, logVars, raceVars>>

\* gemini_service.generate_recipes: self._parse_ai_response(response.text) and
\* the answer of the model service; generate returns it when it is a failure
ParseStep ==
    /\ op = "generating" /\ step = "PARSE"
    /\ parserCalls' = parserCalls + 1
    /\ response_text' = outcome.text
    /\ cleaned_text' = ExtractJsonText(outcome.text)
    /\ parsed' = ParseAiResponse(outcome.text)
    /\ response' = Return(GeminiRespond(ParseAiResponse(outcome.text)))
    /\ step' = IF ParseAiResponse(outcome.text).raised THEN "done" ELSE "RESULT_CHECK"
    /\ UNCHANGED <<request, outcome, http, attempts, modelCalls, steps, op,
                   logVars, raceVars>>

\* if not response.recipes: return the failure
ResultCheck ==
    /\ op = "generating" /\ step = "RESULT_CHECK"
    /\ steps' = Append(steps, "RESULT_CHECK")
    /\ IF response.val.recipes = <<>>
       THEN /\ response' = Failure(<<"No recipes could be generated with the provided ingredients">>)
            /\ step' = "done"
       ELSE response' = response /\ step' = "SUCCESS"
    /\ UNCHANGED <<request, outcome, http, attempts, modelCalls, parserCalls, op,
                   parseVars, logVars, raceVars>>

\* return response
Succeed ==
    /\ op = "generating" /\ step = "SUCCESS"
    /\ steps' = Append(steps, "SUCCESS")
    /\ step' = "done"
    /\ UNCHANGED <<request, outcome, response, http, attempts, modelCalls, parserCalls,
                   op, parseVars, logVars, raceVars>>

\* the caller takes the result
EndGenerate ==
    /\ op = "generating" /\ step = "done"
    /\ op' = "idle"
    /\ step' = "none" /\ parserCalls' = 0
    /\ response_text' = <<>> /\ cleaned_text' = <<>> /\ parsed' = NoParse
    /\ request' = <<>> /\ outcome' = NotCalled /\ response' = Return(NoResponse)
    /\ modelCalls' = 0 /\ steps' = <<>>
    /\ UNCHANGED <<http, attempts, logVars, raceVars>>

NextSteps ==
    \/ \E ingredients \in IngredientLists : BeginGenerate(ingredients)
    \/ InputCheck
    \/ FilterCheck
    \/ \E out \in ModelOutcomes : CallModel(out)
    \/ ParseStep
    \/ ResultCheck
    \/ Succeed
    \/ EndGenerate

SpecSteps == Init /\ [][NextSteps]_vars

-----------------------------------------------------------------------------
(* Claims about the response parser, checked under SpecParse *)

RecipesOf(cs) == [i \in 1..Len(cs) |-> Recipe(cs[i])]

DocText == [d \in JsonDocs |-> JsonDumps(d)]

\* C5: when the raw text is exactly the JSON text of an object whose recipes
\* key holds a sequence of candidates, the parser does not raise and returns
\* exactly the structurally valid candidates (those Recipe accepts), in their
\* order: all of them when all are valid, and all but the invalid ones
\* otherwise.
C5_ParseReturnsWellFormedCandidates ==
    op = "parse" =>
        \A d \in JsonDocs :
            (d.top = "obj" /\ d.recipesKey = "list" /\ DocText[d] = response_text)
            => /\ ~parsed.raised
               /\ parsed.val = RecipesOf(SelectSeq(d.recipes, RecipeValid))

\* the 1-based places where marker m starts in t
Occurrences(t, m) ==
    {i \in 1..Len(t) :
        /\ i + Len(m) - 1 <= Len(t)
        /\ \A k \in 1..Len(m) : t[i + k - 1] = m[k]}

Least(S) == CHOOSE i \in S : \A j \in S : i <= j
Greatest(S) == CHOOSE i \in S : \A j \in S : j <= i

\* the tokens of t after place a and before place b
Between(t, a, b) == [k \in 1..(b - a - 1) |-> t[a + k]]

\* the text between the end of the first marker m and the start of the last
\* closing fence
Fenced(t, m) ==
    Between(t, Least(Occurrences(t, m)) + Len(m) - 1, Greatest(Occurrences(t, Fence)))

\* C6: the JSON candidate is chosen by three strategies in a fixed order.  If
\* the trimmed text holds a JSON-tagged fence marker, the candidate is the text
\* strictly between the end of the first such marker and the last fence marker;
\* else if it holds a fence marker, the same with that marker; else it is the
\* whole trimmed text.  (The candidate is trimmed again, and it is empty when
\* no fence marker follows the opening one.)  A JSON-tagged fenced block around
\* an empty recipes array parses to the empty sequence without error.
C6_FenceStrategiesInOrder ==
    op = "parse" =>
        /\ Occurrences(Strip(response_text), JsonFence) # {}
           => cleaned_text = Strip(Fenced(Strip(response_text), JsonFence))
        /\ (Occurrences(Strip(response_text), JsonFence) = {}
            /\ Occurrences(Strip(response_text), Fence) # {})
           => cleaned_text = Strip(Fenced(Strip(response_text), Fence))
        /\ Occurrences(Strip(response_text), Fence) = {}
           => cleaned_text = Strip(response_text)
        /\ response_text = FencedEmptyRecipes => (~parsed.raised /\ parsed.val = <<>>)

\* the fenced empty recipes array was parsed, and a text with a plain fence
\* before the JSON-tagged one was cut at the JSON-tagged one
C6_Witness_FencedEmpty ==
    /\ op = "parse"
    /\ response_text = FencedEmptyRecipes
    /\ cleaned_text = JsonDumps(RecipesDoc(<<>>))
    /\ parsed = Return(<<>>)

-----------------------------------------------------------------------------
(* Claims about the generation path, checked under Spec *)

\* the orchestrator ran: called directly, or by the request handler
Generated == op = "generate" \/ (op = "handle" /\ steps # <<>>)

\* C1: whatever the ingredient list and whatever the model call did, the
\* result of generate has a non-empty recipe list when success is true, and an
\* empty recipe list and a message when success is false.
C1_ResultEnvelope ==
    Generated =>
        /\ ~response.raised
        /\ response.val.success => response.val.recipes # <<>>
        /\ ~response.val.success =>
              (response.val.recipes = <<>> /\ ~response.val.message.isNone)

\* the model answered with JSON holding no valid recipe, and generate failed
C1_Witness_NoValidRecipe ==
    /\ op = "generate"
    /\ outcome = ModelText(JsonDumps(RecipesDoc(<<MissingNutrition>>)))
    /\ ~response.val.success
    /\ response.val.recipes = <<>>
    /\ response.val.message = Message(<<"No recipes could be generated with the provided ingredients">>)

\* text ends with suffix
EndsWith(text, suffix) ==
    /\ Len(suffix) <= Len(text)
    /\ SubSeq(text, Len(text) - Len(suffix) + 1, Len(text)) = suffix

\* C2: when the model call fails with a provider error, or the parser fails on
\* the text returned (as on the text: not json at all), generate raises
\* nothing and returns success = false with a message that carries the
\* description of the error.
C2_ErrorsBecomeFailures ==
    (Generated /\ modelCalls > 0) =>
        /\ outcome.kind = "error" =>
              /\ ~response.raised
              /\ ~response.val.success
              /\ ~response.val.message.isNone
              /\ EndsWith(response.val.message.text, outcome.desc)
        /\ (outcome.kind = "text" /\ ParseAiResponse(outcome.text).raised) =>
              /\ ~response.raised
              /\ ~response.val.success
              /\ ~response.val.message.isNone
              /\ EndsWith(response.val.message.text, ParseAiResponse(outcome.text).exc)
        /\ outcome = ModelText(Prose) =>
              /\ ~response.val.success
              /\ EndsWith(response.val.message.text, <<"Failed to parse AI response as JSON">>)

\* the model answered with prose, and generate returned the failure of the parser
C2_Witness_ProseAnswer ==
    /\ op = "generate"
    /\ outcome = ModelText(Prose)
    /\ response = Return(RecipeResponse(<<>>, FALSE,
            Message(<<"Failed to generate recipes: ", "Failed to parse AI response as JSON">>)))

\* C3: every generation attempt the request handler passes to the orchestrator
\* appends exactly one record to the interaction log: after k attempts on an
\* empty store the store holds k records.
C3_OneRecordPerAttempt == Len(store) = attempts

Blank(s) == IngLen(IngStrip(s)) = 0
OverLength(s) == IngLen(IngStrip(s)) > IngredientLimit

IsFailure(r) ==
    /\ ~r.raised
    /\ ~r.val.success
    /\ ~r.val.message.isNone
    /\ r.val.recipes = <<>>

\* C4 as claimed: for an ingredient list that is empty, or whose entries are
\* all blank or longer than 100 characters, generate returns success = false
\* with a message and no recipes.
C4_BlankOrOverLengthFails ==
    (op = "generate"
     /\ \A i \in 1..Len(request) : Blank(request[i]) \/ OverLength(request[i]))
    => IsFailure(response)

\* C4 as amended: for an ingredient list that is empty, or whose entries are
\* all blank, generate returns success = false with a message and no recipes.
\* A list whose entries are all blank or longer than 100 characters is turned
\* down by the request handler, with status 400 or 422, before generate runs.
C4_BlankFails ==
    /\ (op = "generate" /\ \A i \in 1..Len(request) : Blank(request[i]))
       => IsFailure(response)
    /\ (op = "handle"
        /\ \A i \in 1..Len(request) : Blank(request[i]) \/ OverLength(request[i]))
       => (http.status \in {400, 422} /\ steps = <<>> /\ modelCalls = 0)

\* generate was given a list of blank entries only, and failed
C4_Witness_AllBlank ==
    /\ op = "generate"
    /\ request = <<Spaces, EmptyString>>
    /\ IsFailure(response)
    /\ response.val.message = Message(<<"No valid ingredients found">>)

-----------------------------------------------------------------------------
(* Claims about the interaction log, checked under SpecLog and SpecRace *)

\* C7: in any store reached by earlier appends, appending one interaction and
\* then calling get_by_id with the id the append returned yields the record
\* just appended: its ingredients are the ones passed in and its recipe count
\* is the number of recipes passed in.
C7_AppendThenGetById ==
    op = "append" =>
        /\ GetInteractionById(store, ret).found
        /\ GetInteractionById(store, ret).record.user_input.ingredients
              = arg.user_ingredients
        /\ GetInteractionById(store, ret).record.parsed_output.recipe_count
              = Len(arg.parsed_recipes)

ReadOps == {"get_all", "get_by_id", "get_recent", "get_stats", "export"}

\* C8: with one operation at a time the store grows by append only.  After an
\* append get_all returns what it returned before followed by exactly one new
\* record; every record stored keeps its content and its place; the read
\* operations leave the interaction sequence as it is.
C8_AppendOnly ==
    [][/\ op' = "append" =>
            /\ Len(GetAllInteractions(store')) = Len(GetAllInteractions(store)) + 1
            /\ SubSeq(GetAllInteractions(store'), 1, Len(store)) = GetAllInteractions(store)
            /\ store'[Len(store')].user_input.ingredients = arg'.user_ingredients
       /\ \A i \in 1..Len(store) : i <= Len(store') /\ store'[i] = store[i]
       /\ op' \in ReadOps => store' = store]_vars

\* an append ran on a store that already held two records
C8_Witness_ThirdAppend ==
    /\ op = "append"
    /\ Len(store) = 3
    /\ store[3].user_input.ingredients = arg.user_ingredients

\* C9: the log is not safe for concurrent writers.  Each writer writes back the
\* whole file as it loaded it plus its own record, so when both writers have
\* finished the file is what the last one wrote; when both had loaded the same
\* file, only one of the two new records is in it.
C9_LastWriterWins ==
    (\A w \in Writers : pc[w] = "done") =>
        /\ \E w \in Writers : store = Append(data[w], rec[w])
        /\ data["w1"] = data["w2"] => Len(store) = Len(data["w1"]) + 1

\* both writers finished and returned an id, and the record of w1 is lost
C9_Witness_LostAppend ==
    /\ \A w \in Writers : pc[w] = "done"
    /\ rec["w1"] # rec["w2"]
    /\ store = <<rec["w2"]>>

\* C10: for a store of n records and a limit that is not negative, get_recent
\* returns the last min(limit, n) records, in the order they were appended.
C10_RecentIsLastMin ==
    (op = "get_recent" /\ arg >= 0) =>
        ret = SubSeq(store, Len(store) - Min(arg, Len(store)) + 1, Len(store))

StatsKeys ==
    {"total_interactions", "successful_interactions", "failed_interactions",
     "success_rate", "total_recipes_generated", "average_recipes_per_interaction"}

Successful(records) == {i \in 1..Len(records) : records[i].parsed_output.success}

RECURSIVE SumOver(_, _)
SumOver(records, n) ==
    IF n = 0 THEN 0 ELSE SumOver(records, n - 1) + records[n].parsed_output.recipe_count

\* the aggregate the specification describes for a store
StatsAsSpecified(records) ==
    /\ StatsKeys \subseteq ret.keys
    /\ ret.total_interactions = Len(records)
    /\ ret.successful_interactions = Cardinality(Successful(records))
    /\ ret.successful_interactions + ret.failed_interactions = ret.total_interactions
    /\ ret.total_recipes_generated = SumOver(records, Len(records))
    /\ Len(records) = 0 => ret.success_rate = Ratio(0, 1)
    /\ Len(records) > 0 =>
           ret.success_rate = Ratio(Cardinality(Successful(records)) * 100, Len(records))
    /\ Successful(records) = {} => ret.average_recipes_per_interaction = Ratio(0, 1)
    /\ Successful(records) # {} =>
           ret.average_recipes_per_interaction
              = Ratio(SumOver(records, Len(records)), Cardinality(Successful(records)))

\* C11: for every store, the empty one included, get_stats returns an aggregate
\* holding the total, successful and failed counts with successful + failed =
\* total, the recipes generated summed over all records, a success rate that is
\* 0 when the total is 0, and an average per successful interaction that is 0
\* when no interaction was successful.
C11_StatsAggregate ==
    op = "get_stats" => StatsAsSpecified(store)

-----------------------------------------------------------------------------
(* Claims about the ingredient checks, checked under SpecNormalize *)

\* the k-th place, in increasing order, of a set of places
Place(S, k) == CHOOSE i \in S : Cardinality({j \in S : j <= i}) = k

\* the result is the entries at the places kept, each trimmed and lowercased,
\* in their order
IsNormalized(raw, kept, result) ==
    /\ Len(result) = Cardinality(kept)
    /\ \A k \in 1..Len(result) :
          /\ result[k].word = raw[Place(kept, k)].word
          /\ result[k].pre = 0 /\ result[k].post = 0 /\ ~result[k].caps
          /\ result[k].len = raw[Place(kept, k)].len + raw[Place(kept, k)].grow
    /\ kept # {} => result # <<>>

\* C12 as stated: normalize returns exactly the entries that are not empty
\* after trimming and at most 100 characters long after trimming, each trimmed
\* and lowercased, in their order, nothing merged and nothing cut; so the
\* result is not empty when such an entry exists.
C12_NormalizeKeepsTrimmedUpToLimit ==
    op = "sanitize" =>
        IsNormalized(arg,
                     {i \in 1..Len(arg) :
                         /\ arg[i].len > 0
                         /\ arg[i].len <= IngredientLimit},
                     ret)

\* C12 as the code has it: the length that must be at most 100 is the length
\* of the entry once trimmed and lowercased.
C12_NormalizeKeepsLoweredUpToLimit ==
    op = "sanitize" =>
        IsNormalized(arg,
                     {i \in 1..Len(arg) :
                         /\ arg[i].len > 0
                         /\ arg[i].len + arg[i].grow <= IngredientLimit},
                     ret)

\* an entry that lowercasing makes too long was dropped, and the padded
\* capital entry after it was kept, trimmed and lowercased
C12_Witness_DroppedAndKept ==
    /\ op = "sanitize"
    /\ arg = <<DottedName, PaddedEgg>>
    /\ ret = <<Egg>>

-----------------------------------------------------------------------------
(* Claims about the steps of generate, checked under SpecSteps *)

StepOrder == <<"INPUT_CHECK", "FILTER_CHECK", "GENERATE", "RESULT_CHECK", "SUCCESS">>

AllBlank(ingredients) == \A i \in 1..Len(ingredients) : Blank(ingredients[i])

FailsWith(text) ==
    /\ ~response.raised
    /\ ~response.val.success
    /\ response.val.recipes = <<>>
    /\ response.val.message = Message(text)

FailsCarrying(description) ==
    /\ ~response.raised
    /\ ~response.val.success
    /\ ~response.val.message.isNone
    /\ EndsWith(response.val.message.text, description)

\* the first step that fails for these ingredients and this answer of the model,
\* SUCCESS when none does
FirstFailing(ingredients, out) ==
    IF ingredients = <<>> THEN "INPUT_CHECK"
    ELSE IF AllBlank(ingredients) THEN "FILTER_CHECK"
    ELSE IF out.kind = "error" \/ ParseAiResponse(out.text).raised THEN "GENERATE"
    ELSE IF ParseAiResponse(out.text).val = <<>> THEN "RESULT_CHECK"
    ELSE "SUCCESS"

\* C13: generate goes through INPUT_CHECK, FILTER_CHECK, GENERATE,
\* RESULT_CHECK, SUCCESS in this order, without a retry, and stops at the first
\* step that fails.  In every execution the model is invoked at most once and
\* never for an empty or all-blank list, the parser runs only after the model
\* call returned a text, and the failure message is the one of the first
\* failing step.
C13_LinearShortCircuit ==
    op = "generating" =>
        /\ Len(steps) <= Len(StepOrder) /\ steps = SubSeq(StepOrder, 1, Len(steps))
        /\ modelCalls <= 1
        /\ (request = <<>> \/ AllBlank(request)) => modelCalls = 0
        /\ parserCalls <= modelCalls
        /\ parserCalls > 0 => outcome.kind = "text"
        /\ step = "done" =>
              /\ steps # <<>>
              /\ steps[Len(steps)] = FirstFailing(request, outcome)
              /\ steps[Len(steps)] = "INPUT_CHECK" => FailsWith(<<"No ingredients provided">>)
              /\ steps[Len(steps)] = "FILTER_CHECK" => FailsWith(<<"No valid ingredients found">>)
              /\ (steps[Len(steps)] = "GENERATE" /\ outcome.kind = "error")
                    => (FailsCarrying(outcome.desc) /\ parserCalls = 0)
              /\ (steps[Len(steps)] = "GENERATE" /\ outcome.kind = "text")
                    => (FailsCarrying(parsed.exc) /\ parserCalls = 1)
              /\ steps[Len(steps)] = "RESULT_CHECK"
                    => FailsWith(<<"No recipes could be generated with the provided ingredients">>)
              /\ steps[Len(steps)] = "SUCCESS"
                    => (~response.raised /\ response.val.success /\ response.val.recipes = parsed.val)

\* the model returned a text without a valid recipe: one model call, one run
\* of the parser, and the run stopped at RESULT_CHECK
C13_Witness_StoppedAtResultCheck ==
    /\ op = "generating" /\ step = "done"
    /\ steps = SubSeq(StepOrder, 1, 4)
    /\ modelCalls = 1 /\ parserCalls = 1
    /\ outcome.kind = "text"

=============================================================================
